---- MODULE Spec2Model ----
(***************************************************************************)
(* The `open` subcommand (packages/cli/src/commands/open.ts) as a state    *)
(* machine.  One action per run-to-completion segment of the async         *)
(* function `open`: a segment starts where an awaited collaborator         *)
(* resolves and ends at the next await or return.                          *)
(*                                                                         *)
(* Strings are sequences of one-character strings, so concatenation,       *)
(* String.prototype.replace and template literals are computed.  A value   *)
(* that may be undefined/null is a sequence of length 0 (undefined) or 1   *)
(* (<<v>>, defined).                                                       *)
(***************************************************************************)
EXTENDS Integers, Sequences, FiniteSets, TLC

VARIABLES pc, exitCode, yes, team, project, org, currentTeam, server,
          dashboardUrl, inspectorUrl, latestDeploymentUrl,
          latestProductionDeployment, menu, choice, log, fetches,
          launched, subprocess, calls, err

vars == <<pc, exitCode, yes, team, project, org, currentTeam, server,
          dashboardUrl, inspectorUrl, latestDeploymentUrl,
          latestProductionDeployment, menu, choice, log, fetches,
          launched, subprocess, calls, err>>

----------------------------------------------------------------------------
(* Bounds of the input domains. *)

\* deployment ids are concatenations of at most MaxParts parts
MaxParts == 2
\* largest exit code a collaborator (validatePaths, ensureLink) hands back
MaxExitCode == 2

----------------------------------------------------------------------------
(* String literals of the source. *)

HTTPS == <<"h","t","t","p","s",":","/","/">>
VERCEL == HTTPS \o <<"v","e","r","c","e","l",".","c","o","m","/">>
SLASH == <<"/">>
DPL == <<"d","p","l","_">>
NOT_FOUND == <<"n","o","t","_","f","o","u","n","d">>
ABORT == << >>
UNDEFINED_STR == <<"u","n","d","e","f","i","n","e","d">>
PROJECTS_PATH == <<"/","v","9","/","p","r","o","j","e","c","t","s","/">>
TEAM_ID_EQ == <<"?","t","e","a","m","I","d","=">>
NO_DEPLOYMENTS == <<"N","o"," ","d","e","p","l","o","y","m","e","n","t","s"," ","f","o","u","n","d">>

None == << >>
Some(v) == <<v>>

----------------------------------------------------------------------------
(* Input domains. *)

IdParts == {DPL, <<"a">>}

RECURSIVE Concats(_)
Concats(n) ==
  IF n = 0 THEN {<< >>}
  ELSE Concats(n - 1) \cup {s \o p : s \in Concats(n - 1), p \in IdParts}

DeploymentIds == Concats(MaxParts)

Hosts == {<<"x",".","a","p","p">>}
OptUrls == {None, Some(<< >>)} \cup {Some(h) : h \in Hosts}

Deployments == [id : {None} \cup {Some(i) : i \in DeploymentIds}, url : OptUrls]
OlderDeployment == [id |-> Some(DPL \o <<"o">>), url |-> Some(<<"o",".","a","p","p">>)]
DeploymentLists ==
  {<< >>} \cup {<<d>> : d \in Deployments}
          \cup {<<d, OlderDeployment>> : d \in Deployments}

Productions == {None} \cup {Some([url |-> u]) : u \in {None} \cup {Some(h) : h \in Hosts}}
Targets == {None} \cup {Some([production |-> p]) : p \in Productions}

ServerProjects ==
  [latestDeployments : {None} \cup {Some(l) : l \in DeploymentLists},
   targets : Targets]

Orgs == {[id |-> <<"u","1">>, slug |-> <<"m","e">>, type |-> "user"],
         [id |-> <<"t","1">>, slug |-> <<"a","c">>, type |-> "team"]}
Projects == {[id |-> <<"p","1">>, name |-> <<"w","e","b">>],
             [id |-> <<"p","2">>, name |-> <<"a","p","i">>]}
Teams == {None, Some([id |-> <<"t","1">>])}
ConfigTeams == {None, Some(<<"t","0">>)}
ScopeErrorCodes == {"NOT_AUTHORIZED", "TEAM_DELETED", "ECONNRESET"}
ErrorMessages == {<<"E">>}
ExitCodes == 0..MaxExitCode

----------------------------------------------------------------------------
(* Pure helpers of the source. *)

\* first index at which pat occurs in s, 0 when it does not occur
IndexOf(s, pat) ==
  LET hits == {i \in 1..(Len(s) - Len(pat) + 1) :
                 SubSeq(s, i, i + Len(pat) - 1) = pat}
  IN IF hits = {} THEN 0 ELSE CHOOSE i \in hits : \A j \in hits : i <= j

\* variant: every occurrence is replaced (a /dpl_/g pattern)
RECURSIVE replaceAll(_, _, _)
replaceAll(s, pat, rep) ==
  LET i == IndexOf(s, pat)
  IN IF i = 0 THEN s
     ELSE SubSeq(s, 1, i - 1) \o rep
            \o replaceAll(SubSeq(s, i + Len(pat), Len(s)), pat, rep)

\* String.prototype.replace(pat, rep) with a string pattern: first occurrence
replace(s, pat, rep) ==
  LET i == IndexOf(s, pat)
  IN IF i = 0 THEN s
     ELSE SubSeq(s, 1, i - 1) \o rep \o SubSeq(s, i + Len(pat), Len(s))

\* `${v}` of a value that may be undefined
Template(opt) == IF opt = None THEN UNDEFINED_STR ELSE opt[1]

\* JS truthiness of a string that may be undefined
Truthy(opt) == opt # None /\ opt[1] # << >>

\* proj.latestDeployments?.[0]
FirstDeployment(proj) ==
  IF proj.latestDeployments = None THEN None
  ELSE IF proj.latestDeployments[1] = << >> THEN None
  ELSE Some(proj.latestDeployments[1][1])

getDashboardUrl(o, p) == VERCEL \o o.slug \o SLASH \o p.name

getInspectorUrl(proj, p, o) ==
  IF proj = None THEN None
  ELSE LET d == FirstDeployment(proj[1])
           latestDeploymentId ==
             IF d = None THEN None
             ELSE IF d[1].id = None THEN None
             ELSE Some(replace(d[1].id[1], DPL, << >>))
       IN IF Truthy(latestDeploymentId)
          THEN Some(VERCEL \o o.slug \o SLASH \o p.name \o SLASH \o latestDeploymentId[1])
          ELSE None

getLatestDeploymentUrl(proj) ==
  IF proj = None THEN None
  ELSE LET d == FirstDeployment(proj[1])
       IN IF d # None /\ Truthy(d[1].url)
          THEN Some(HTTPS \o Template(d[1].url))
          ELSE None

\* variant: the production target is not tested before its url is read
getLatestProdDeployment_unchecked(proj) ==
  IF proj = None THEN None
  ELSE Some(HTTPS \o Template(
         IF proj[1].targets # None /\ proj[1].targets[1].production # None
         THEN proj[1].targets[1].production[1].url
         ELSE None))

getLatestProdDeployment(proj) ==
  IF proj = None THEN None
  ELSE IF proj[1].targets # None /\ proj[1].targets[1].production # None
       THEN Some(HTTPS \o Template(proj[1].targets[1].production[1].url))
       ELSE None

\* variant: value || ''
OrEmpty(opt) == IF Truthy(opt) THEN opt[1] ELSE << >>

\* value || 'not_found'
OrNotFound(opt) == IF Truthy(opt) THEN opt[1] ELSE NOT_FOUND

\* variant: the project is updated by id instead of read by name
ProjectRequest_byId(by, p, t) ==
  [by |-> by, method |-> "PATCH",
   url |-> PROJECTS_PATH \o p.id \o TEAM_ID_EQ \o (IF t = None THEN << >> ELSE t[1].id),
   status |-> "pending"]

\* the request getProject hands to client.fetch
ProjectRequest(by, p, t) ==
  [by |-> by, method |-> "GET",
   url |-> PROJECTS_PATH \o p.name \o TEAM_ID_EQ \o (IF t = None THEN << >> ELSE t[1].id),
   status |-> "pending"]

\* the choices handed to list()
Choices(dash, insp, prev, prod) ==
  << [name |-> "Dashboard", value |-> dash],
     [name |-> "Latest Deployment Inspector", value |-> OrNotFound(insp)],
     [name |-> "Latest Preview Deployment", value |-> OrNotFound(prev)],
     [name |-> "Latest Production Deployment", value |-> OrNotFound(prod)] >>

Entry(kind, arg) == [kind |-> kind, arg |-> arg]

\* what client.fetch settles with: the stored project, or a rejection
Responses ==
  {[ok |-> TRUE, body |-> Some(server), message |-> << >>]}
    \cup {[ok |-> FALSE, body |-> None, message |-> m] : m \in ErrorMessages}

\* getProject: the fetched body, undefined after the .catch handler ran
getProject(resp) == IF resp.ok THEN resp.body ELSE None

\* variant: the .catch handler swallows the error without reporting it
getProjectOutput_silent(resp, out) == out

\* output of getProject's .catch handler: client.output.error(err.message)
getProjectOutput(resp, out) ==
  IF resp.ok THEN out ELSE Append(out, Entry("error", resp.message))

\* the pending request of the log is settled
Settled(fs, resp) ==
  [fs EXCEPT ![Len(fs)].status = IF resp.ok THEN "ok" ELSE "failed"]

ReturnSites == {"return60", "return65", "return77", "return89", "return95",
                "return145", "return149", "return154"}
ThrowSites == {"throw80"}

----------------------------------------------------------------------------
(* State after construction: nothing has run.  The project record stored    *)
(* behind /v9/projects/:name is any record of ServerProjects and stays the  *)
(* same during one run; each lookup's result depends on its own response    *)
(* only, and each fetch may fail on its own.                                *)

Init ==
  /\ pc = "start"
  /\ exitCode = -1
  /\ yes = FALSE
  /\ team = None
  /\ project = None
  /\ org = None
  /\ currentTeam \in ConfigTeams
  /\ server \in ServerProjects
  /\ dashboardUrl = None
  /\ inspectorUrl = None
  /\ latestDeploymentUrl = None
  /\ latestProductionDeployment = None
  /\ menu = << >>
  /\ choice = None
  /\ log = << >>
  /\ fetches = << >>
  /\ launched = << >>
  /\ subprocess = "none"
  /\ calls = << >>
  /\ err = None

locals == <<dashboardUrl, inspectorUrl, latestDeploymentUrl,
            latestProductionDeployment, menu, choice>>
linked == <<project, org, currentTeam>>
world == <<server, fetches, launched, subprocess, err>>

----------------------------------------------------------------------------
(* open(), lines 54-61: getArgs throws *)
ArgsError ==
  /\ pc = "start"
  /\ calls' = Append(calls, "getArgs")
  /\ log' = Append(log, Entry("handleError", << >>))
  /\ exitCode' = 1
  /\ pc' = "return60"
  /\ UNCHANGED <<yes, team, linked, locals, world>>

(* open(), lines 63-66: --help *)
Help ==
  /\ pc = "start"
  /\ calls' = Append(calls, "getArgs")
  /\ log' = Append(log, Entry("help", << >>))
  /\ exitCode' = 2
  /\ pc' = "return65"
  /\ UNCHANGED <<yes, team, linked, locals, world>>

(* open(), lines 55-73: arguments parsed, getScope is awaited *)
ArgsOk ==
  /\ pc = "start"
  /\ \E y \in BOOLEAN : yes' = y
  /\ calls' = calls \o <<"getArgs", "getScope">>
  /\ pc' = "await_getScope"
  /\ UNCHANGED <<exitCode, team, linked, locals, world, log>>

\* variant: TEAM_DELETED is not recognised
IsScopeError_authOnly(code) == code = "NOT_AUTHORIZED"

\* err.code === 'NOT_AUTHORIZED' || err.code === 'TEAM_DELETED'
IsScopeError(code) == code = "NOT_AUTHORIZED" \/ code = "TEAM_DELETED"

(* open(), lines 74-78: getScope rejects with an authorization/team error *)
ScopeAuthError ==
  /\ pc = "await_getScope"
  /\ \E code \in ScopeErrorCodes, m \in ErrorMessages :
       /\ IsScopeError(code)
       /\ err' = Some([code |-> code, message |-> m])
       /\ log' = Append(log, Entry("error", m))
  /\ exitCode' = 1
  /\ pc' = "return77"
  /\ UNCHANGED <<yes, team, linked, locals, server, fetches, launched,
                 subprocess, calls>>

(* open(), lines 74-81: getScope rejects with any other error: rethrown *)
ScopeRethrow ==
  /\ pc = "await_getScope"
  /\ \E code \in ScopeErrorCodes, m \in ErrorMessages :
       /\ ~IsScopeError(code)
       /\ err' = Some([code |-> code, message |-> m])
  /\ pc' = "throw80"
  /\ UNCHANGED <<exitCode, yes, team, linked, locals, server, fetches,
                 launched, subprocess, calls, log>>

(* open(), lines 73-87: scope resolved, validatePaths is awaited *)
ScopeOk ==
  /\ pc = "await_getScope"
  /\ \E t \in Teams : team' = t
  /\ calls' = Append(calls, "validatePaths")
  /\ pc' = "await_validatePaths"
  /\ UNCHANGED <<exitCode, yes, linked, locals, world, log>>

(* open(), lines 87-90: the path is not valid *)
ValidateInvalid ==
  /\ pc = "await_validatePaths"
  /\ \E code \in ExitCodes : exitCode' = code
  /\ pc' = "return89"
  /\ UNCHANGED <<yes, team, linked, locals, world, calls, log>>

(* open(), lines 87-93: the path is valid, ensureLink is awaited *)
ValidateOk ==
  /\ pc = "await_validatePaths"
  /\ calls' = Append(calls, "ensureLink")
  /\ pc' = "await_ensureLink"
  /\ UNCHANGED <<exitCode, yes, team, linked, locals, world, log>>

(* open(), lines 93-96: ensureLink resolves with an exit code *)
LinkNumber ==
  /\ pc = "await_ensureLink"
  /\ \E code \in ExitCodes : exitCode' = code
  /\ pc' = "return95"
  /\ UNCHANGED <<yes, team, linked, locals, world, calls, log>>

\* variant: the org type is not tested
TeamOfOrg_always(o) == Some(o.id)

\* client.config.currentTeam = org.type === 'team' ? org.id : undefined
TeamOfOrg(o) == IF o.type = "team" THEN Some(o.id) ELSE None

\* variant: the three lookups are started together (Promise.all)
LinkOk_parallel ==
  /\ pc = "await_ensureLink"
  /\ \E p \in Projects, o \in Orgs :
       /\ project' = Some(p)
       /\ org' = Some(o)
       /\ currentTeam' = TeamOfOrg(o)
       /\ dashboardUrl' = Some(getDashboardUrl(o, p))
       /\ fetches' = fetches \o
            << ProjectRequest("getInspectorUrl", p, team),
               ProjectRequest("getLatestDeploymentUrl", p, team),
               ProjectRequest("getLatestProdDeployment", p, team) >>
  /\ pc' = "await_inspector"
  /\ UNCHANGED <<exitCode, yes, team, inspectorUrl, latestDeploymentUrl,
                 latestProductionDeployment, menu, choice, server, launched,
                 subprocess, calls, log, err>>

(* open(), lines 93-102: linked; currentTeam is set, the dashboard URL is  *)
(* built and getInspectorUrl's fetch is awaited                            *)
LinkOk ==
  /\ pc = "await_ensureLink"
  /\ \E p \in Projects, o \in Orgs :
       /\ project' = Some(p)
       /\ org' = Some(o)
       /\ currentTeam' = TeamOfOrg(o)
       /\ dashboardUrl' = Some(getDashboardUrl(o, p))
       /\ fetches' = Append(fetches, ProjectRequest("getInspectorUrl", p, team))
  /\ pc' = "await_inspector"
  /\ UNCHANGED <<exitCode, yes, team, inspectorUrl, latestDeploymentUrl,
                 latestProductionDeployment, menu, choice, server, launched,
                 subprocess, calls, log, err>>

(* getInspectorUrl settles (lines 166-176, 203-213); open() lines 102-107  *)
(* go on to getLatestDeploymentUrl's fetch                                 *)
InspectorSettled ==
  /\ pc = "await_inspector"
  /\ \E resp \in Responses :
       /\ log' = getProjectOutput(resp, log)
       /\ inspectorUrl' = getInspectorUrl(getProject(resp), project[1], org[1])
       /\ fetches' = Append(Settled(fetches, resp),
                            ProjectRequest("getLatestDeploymentUrl", project[1], team))
  /\ pc' = "await_preview"
  /\ UNCHANGED <<exitCode, yes, team, linked, dashboardUrl, latestDeploymentUrl,
                 latestProductionDeployment, menu, choice, server, launched,
                 subprocess, calls, err>>

(* getLatestDeploymentUrl settles (lines 182-186); open() lines 103-112 go *)
(* on to getLatestProdDeployment's fetch                                   *)
PreviewSettled ==
  /\ pc = "await_preview"
  /\ \E resp \in Responses :
       /\ log' = getProjectOutput(resp, log)
       /\ latestDeploymentUrl' = getLatestDeploymentUrl(getProject(resp))
       /\ fetches' = Append(Settled(fetches, resp),
                            ProjectRequest("getLatestProdDeployment", project[1], team))
  /\ pc' = "await_production"
  /\ UNCHANGED <<exitCode, yes, team, linked, dashboardUrl, inspectorUrl,
                 latestProductionDeployment, menu, choice, server, launched,
                 subprocess, calls, err>>

(* getLatestProdDeployment settles (lines 192-196); open() lines 108-138   *)
(* build the choices and await list()                                      *)
ProductionSettled ==
  /\ pc = "await_production"
  /\ \E resp \in Responses :
       /\ log' = getProjectOutput(resp, log)
       /\ latestProductionDeployment' = getLatestProdDeployment(getProject(resp))
       /\ fetches' = Settled(fetches, resp)
  /\ menu' = Choices(dashboardUrl[1], inspectorUrl, latestDeploymentUrl,
                     latestProductionDeployment')
  /\ calls' = Append(calls, "list")
  /\ pc' = "await_list"
  /\ UNCHANGED <<exitCode, yes, team, linked, dashboardUrl, inspectorUrl,
                 latestDeploymentUrl, choice, server, launched, subprocess, err>>

\* what list() can resolve with: the value of an entry, or '' on abort
ListResults(m) == {m[i].value : i \in 1..Len(m)} \cup {ABORT}

\* variant: the abort test of line 147 is missing
Branch_noAbort(c) ==
  IF c = NOT_FOUND THEN "return145" ELSE "return154"

\* variant: the 'not_found' test of line 139 is missing
Branch_noNotFound(c) ==
  IF c = ABORT THEN "return149" ELSE "return154"

\* open(), lines 139-154: the return statement the choice leads to
Branch(c) ==
  IF c = NOT_FOUND THEN "return145"
  ELSE IF c = ABORT THEN "return149"
  ELSE "return154"

(* open(), lines 114-155: list() resolves *)
ListResolved ==
  /\ pc = "await_list"
  /\ \E c \in ListResults(menu) :
       /\ choice' = Some(c)
       /\ pc' = Branch(c)
       /\ IF pc' = "return145"
          THEN /\ log' = Append(log, Entry("log", NO_DEPLOYMENTS))
               /\ exitCode' = 1
               /\ UNCHANGED <<launched, subprocess, calls>>
          ELSE IF pc' = "return149"
          THEN /\ exitCode' = 0
               /\ UNCHANGED <<log, launched, subprocess, calls>>
          ELSE /\ launched' = Append(launched, c)
               /\ subprocess' = "running"
               /\ calls' = Append(calls, "execa")
               /\ log' = Append(log, Entry("opened", c))
               /\ exitCode' = 0
  /\ UNCHANGED <<yes, team, linked, dashboardUrl, inspectorUrl,
                 latestDeploymentUrl, latestProductionDeployment, menu,
                 server, fetches, err>>

(* the subprocess started at line 152 ends on its own, nobody awaits it *)
SubprocessExit ==
  /\ subprocess = "running"
  /\ \E s \in {"succeeded", "failed"} : subprocess' = s
  /\ UNCHANGED <<pc, exitCode, yes, team, linked, locals, server, fetches,
                 launched, calls, log, err>>

Next ==
  \/ ArgsError \/ Help \/ ArgsOk
  \/ ScopeAuthError \/ ScopeRethrow \/ ScopeOk
  \/ ValidateInvalid \/ ValidateOk
  \/ LinkNumber \/ LinkOk
  \/ InspectorSettled \/ PreviewSettled \/ ProductionSettled
  \/ ListResolved
  \/ SubprocessExit

Spec == Init /\ [][Next]_vars

TypeOK ==
  /\ pc \in ReturnSites \cup ThrowSites \cup
       {"start", "await_getScope", "await_validatePaths", "await_ensureLink",
        "await_inspector", "await_preview", "await_production", "await_list"}
  /\ exitCode \in -1..MaxExitCode
  /\ Len(fetches) <= 3

----------------------------------------------------------------------------
(* Vocabulary of the properties. *)

Last(q) == q[Len(q)]
StartsWith(s, pre) == Len(s) >= Len(pre) /\ SubSeq(s, 1, Len(pre)) = pre
EarlyExits == {"return60", "return65", "return77", "throw80", "return89", "return95"}
MenuShown == menu # << >>
AllSettled == Len(fetches) = 3 /\ \A k \in 1..3 : fetches[k].status # "pending"
AllOk == Len(fetches) = 3 /\ \A k \in 1..3 : fetches[k].status = "ok"
Failed(k) == k <= Len(fetches) /\ fetches[k].status = "failed"
ErrorsLogged == Cardinality({i \in 1..Len(log) : log[i].kind = "error"})
FailedLookups == Cardinality({k \in 1..Len(fetches) : fetches[k].status = "failed"})
OpenedLogged == \E i \in 1..Len(log) : log[i].kind = "opened"
LookupOrder == <<"getInspectorUrl", "getLatestDeploymentUrl", "getLatestProdDeployment">>

\* the stored project has no latestDeployments[0] and no targets.production
NoDeployments ==
  /\ server.latestDeployments = None \/ server.latestDeployments[1] = << >>
  /\ server.targets = None \/ server.targets[1].production = None

----------------------------------------------------------------------------
\* C1: for a project with no deployments the Inspector, Latest Preview and
\* Latest Production values of the menu are all 'not_found', and selecting
\* 'not_found' logs "No deployments found", returns 1 and never starts the
\* launcher.
C1_NoDeploymentsNotFound ==
  NoDeployments =>
    /\ MenuShown => \A i \in 2..4 : menu[i].value = NOT_FOUND
    /\ choice = Some(NOT_FOUND) =>
         /\ pc = "return145"
         /\ exitCode = 1
         /\ Last(log) = Entry("log", NO_DEPLOYMENTS)
         /\ launched = << >>
         /\ subprocess = "none"
         /\ ~OpenedLogged

C1_Witness ==
  /\ NoDeployments
  /\ AllOk
  /\ choice = Some(NOT_FOUND)
  /\ pc = "return145"

\* C2: when the latest deployment id is 'dpl_' followed by a non-empty X, the
\* inspector URL is exactly 'https://vercel.com/S/P/X', which is the
\* dashboard URL followed by '/' and X.
C2_InspectorUrl ==
  (/\ Len(fetches) >= 1
   /\ fetches[1].status = "ok"
   /\ server.latestDeployments # None
   /\ server.latestDeployments[1] # << >>
   /\ server.latestDeployments[1][1].id # None
   /\ StartsWith(server.latestDeployments[1][1].id[1], DPL)
   /\ Len(server.latestDeployments[1][1].id[1]) > Len(DPL))
  =>
    LET id == server.latestDeployments[1][1].id[1]
        X == SubSeq(id, Len(DPL) + 1, Len(id))
    IN /\ inspectorUrl = Some(VERCEL \o org[1].slug \o SLASH \o project[1].name \o SLASH \o X)
       /\ inspectorUrl = Some(dashboardUrl[1] \o SLASH \o X)

C2_Witness ==
  /\ Len(fetches) >= 1
  /\ fetches[1].status = "ok"
  /\ server.latestDeployments # None
  /\ server.latestDeployments[1] # << >>
  /\ server.latestDeployments[1][1].id = Some(DPL \o DPL)
  /\ inspectorUrl = Some(VERCEL \o <<"a","c">> \o SLASH \o <<"w","e","b">> \o SLASH \o DPL)

\* C3: when the prompt returns the abort sentinel '', open returns 0, the
\* launcher is never started and no 'Opened' line is logged.
C3_AbortExitsZero ==
  choice = Some(ABORT) =>
    /\ pc = "return149"
    /\ exitCode = 0
    /\ launched = << >>
    /\ subprocess = "none"
    /\ "execa" \notin {calls[i] : i \in 1..Len(calls)}
    /\ ~OpenedLogged

C3_Witness ==
  /\ choice = Some(ABORT)
  /\ pc = "return149"
  /\ exitCode = 0

\* C4 as stated: every terminated run has an exit code in {0, 1, 2}, 0
\* exactly when a URL was opened or the prompt was aborted, 1 after an
\* authorization/team error or a 'not_found' selection, 2 after help, and no
\* run ends in an uncaught exception.
C4_Original ==
  /\ pc \notin ThrowSites
  /\ pc \in ReturnSites =>
       /\ exitCode \in {0, 1, 2}
       /\ exitCode = 0 <=> pc \in {"return149", "return154"}
       /\ pc \in {"return77", "return145"} => exitCode = 1
       /\ pc = "return65" => exitCode = 2

\* C4 amended: a terminated run either returned an exit code or rethrew the
\* getScope error whose code is neither NOT_AUTHORIZED nor TEAM_DELETED; it
\* returns 0 after opening a URL or an aborted prompt, 1 after an argument
\* error, a NOT_AUTHORIZED/TEAM_DELETED scope error or a 'not_found'
\* selection, 2 after help, and the collaborator's own exit code when
\* validatePaths or ensureLink ends the run.
C4_ExitCodes ==
  /\ pc \in ThrowSites =>
       /\ err # None
       /\ err[1].code \notin {"NOT_AUTHORIZED", "TEAM_DELETED"}
       /\ exitCode = -1
  /\ (err # None /\ err[1].code \in {"NOT_AUTHORIZED", "TEAM_DELETED"}) =>
       /\ pc = "return77"
       /\ Last(log) = Entry("error", err[1].message)
  /\ pc \in ReturnSites =>
       /\ exitCode >= 0
       /\ pc \in {"return149", "return154"} => exitCode = 0
       /\ pc \in {"return60", "return77", "return145"} => exitCode = 1
       /\ pc = "return65" => exitCode = 2
       /\ pc = "return154" => choice \notin {None, Some(NOT_FOUND), Some(ABORT)}
       /\ pc = "return149" => choice = Some(ABORT)
       /\ pc = "return145" => choice = Some(NOT_FOUND)
       /\ pc = "return77" => err # None
  /\ pc \notin ReturnSites \cup ThrowSites => exitCode = -1

C4_Witness ==
  /\ pc = "throw80"
  /\ err # None
  /\ err[1].code = "ECONNRESET"
  /\ exitCode = -1

\* C5: a failed project lookup is never fatal: its error message is logged,
\* the run goes on to the remaining lookups and to the menu, the failed
\* lookup's menu value is 'not_found' and the Dashboard entry carries the
\* dashboard URL, whatever the combination of failing and succeeding lookups.
C5_LookupFailureNotFatal ==
  /\ Len(fetches) >= 1 => ErrorsLogged = FailedLookups
  /\ \A k \in 1..3 :
       Failed(k) =>
         /\ pc \notin EarlyExits
         /\ k < 3 => Len(fetches) > k
         /\ pc \in {"await_preview", "await_production"} => ENABLED Next
         /\ pc \in ReturnSites \cup {"await_list"} =>
              /\ MenuShown
              /\ AllSettled
              /\ menu[k + 1].value = NOT_FOUND
              /\ menu[1].name = "Dashboard"
              /\ menu[1].value = VERCEL \o org[1].slug \o SLASH \o project[1].name

C5_Witness ==
  /\ pc = "await_list"
  /\ Failed(1) /\ ~Failed(2) /\ Failed(3)
  /\ menu[2].value = NOT_FOUND
  /\ menu[3].value # NOT_FOUND
  /\ menu[4].value = NOT_FOUND
  /\ ~NoDeployments

\* C6: a run that reaches the menu issues exactly three project lookups, in
\* the order inspector, latest preview, latest production; a lookup starts
\* only after the previous one has settled, and the prompt is shown only
\* after the third has settled.
C6_SerialLookups ==
  /\ Len(fetches) <= 3
  /\ \A k \in 1..Len(fetches) :
       /\ fetches[k].by = LookupOrder[k]
       /\ k < Len(fetches) => fetches[k].status # "pending"
  /\ Cardinality({k \in 1..Len(fetches) : fetches[k].status = "pending"}) <= 1
  /\ (MenuShown \/ "list" \in {calls[i] : i \in 1..Len(calls)}) => AllSettled

C6_Witness ==
  /\ pc = "await_list"
  /\ MenuShown
  /\ Len(fetches) = 3
  /\ fetches[1].status = "ok" /\ fetches[2].status = "failed"

\* C7: whenever the prompt is shown the menu has exactly the four entries
\* Dashboard, Inspector, Latest Preview, Latest Production in that order; the
\* Dashboard value is 'https://vercel.com/{org.slug}/{project.name}' and each
\* other value is the URL its lookup resolved, or 'not_found' when it resolved
\* nothing; no value is empty.
C7_MenuShape ==
  MenuShown =>
    /\ Len(menu) = 4
    /\ <<menu[1].name, menu[2].name, menu[3].name, menu[4].name>> =
         <<"Dashboard", "Latest Deployment Inspector",
           "Latest Preview Deployment", "Latest Production Deployment">>
    /\ menu[1].value = VERCEL \o org[1].slug \o SLASH \o project[1].name
    /\ menu[2].value = (IF inspectorUrl = None THEN NOT_FOUND ELSE inspectorUrl[1])
    /\ menu[3].value = (IF latestDeploymentUrl = None THEN NOT_FOUND
                        ELSE latestDeploymentUrl[1])
    /\ menu[4].value = (IF latestProductionDeployment = None THEN NOT_FOUND
                        ELSE latestProductionDeployment[1])
    /\ \A i \in 1..4 :
         /\ menu[i].value # ABORT
         /\ menu[i].value = NOT_FOUND
              \/ (StartsWith(menu[i].value, HTTPS) /\ Len(menu[i].value) > Len(HTTPS))
    /\ (fetches[2].status = "ok" /\ server.latestDeployments # None
          /\ server.latestDeployments[1] # << >>
          /\ server.latestDeployments[1][1].url \notin {None, Some(<< >>)})
         => menu[3].value = HTTPS \o server.latestDeployments[1][1].url[1]
    /\ (fetches[3].status = "ok" /\ ~NoDeployments /\ server.targets # None
          /\ server.targets[1].production \notin {None, Some([url |-> None])})
         => menu[4].value = HTTPS \o server.targets[1].production[1].url[1]

C7_Witness ==
  /\ pc = "await_list"
  /\ AllOk
  /\ menu[2].value = NOT_FOUND
  /\ menu[3].value = HTTPS \o <<"x",".","a","p","p">>
  /\ menu[4].value = HTTPS \o UNDEFINED_STR

\* C8: the command only reads: along every run the stored project and the
\* Project, Org and Team records the command holds are never changed, and
\* every network operation it issues is a GET on /v9/projects/{name}.
C8_ReadOnly ==
  [][ /\ server' = server
      /\ project # None => project' = project
      /\ org # None => org' = org
      /\ pc \notin {"start", "await_getScope"} => team' = team
      /\ \A k \in 1..Len(fetches') :
           /\ fetches'[k].method = "GET"
           /\ fetches'[k].url =
                PROJECTS_PATH \o project'[1].name \o TEAM_ID_EQ
                  \o (IF team' = None THEN << >> ELSE team'[1].id) ]_vars

C8_Witness ==
  /\ pc = "return154"
  /\ Len(fetches) = 3
  /\ team # None
  /\ fetches[3].url = PROJECTS_PATH \o <<"a","p","i">> \o TEAM_ID_EQ \o <<"t","1">>

\* C9: the launcher is started at most once per run, as the last collaborator
\* and with the chosen URL, only after scope resolution, path validation,
\* linking, the three lookups and the prompt, and only when the choice is
\* neither 'not_found' nor ''; the confirmation is then logged and 0 returned
\* whatever becomes of the subprocess.  A run that exits before linking
\* succeeded issues no lookup, shows no prompt and starts no launcher.
C9_LaunchLast ==
  /\ Len(launched) <= 1
  /\ subprocess # "none" <=> launched # << >>
  /\ launched # << >> =>
       /\ pc = "return154"
       /\ calls = <<"getArgs", "getScope", "validatePaths", "ensureLink", "list", "execa">>
       /\ AllSettled
       /\ choice = Some(launched[1])
       /\ launched[1] \notin {NOT_FOUND, ABORT}
       /\ launched[1] \in {menu[i].value : i \in 1..Len(menu)}
       /\ exitCode = 0
       /\ Last(log) = Entry("opened", launched[1])
  /\ pc = "return154" => launched # << >>
  /\ pc \in EarlyExits =>
       /\ fetches = << >>
       /\ ~MenuShown
       /\ "list" \notin {calls[i] : i \in 1..Len(calls)}
       /\ launched = << >>

C9_Witness ==
  /\ pc = "return154"
  /\ subprocess = "failed"
  /\ exitCode = 0
  /\ launched = <<menu[3].value>>

\* C10: client.config.currentTeam changes only in the step where linking
\* succeeds; that step sets it to org.id when org.type is 'team' and to
\* undefined otherwise, and it keeps the value afterwards; a run that exits
\* before linking succeeded leaves it as it was.
C10_CurrentTeam ==
  [][ /\ currentTeam' # currentTeam => (pc = "await_ensureLink" /\ pc' = "await_inspector")
      /\ (pc = "await_ensureLink" /\ pc' = "await_inspector") =>
           currentTeam' = (IF org'[1].type = "team" THEN Some(org'[1].id) ELSE None)
      /\ pc' \in EarlyExits => currentTeam' = currentTeam ]_vars

C10_Witness ==
  /\ pc = "return154"
  /\ org[1].type = "user"
  /\ currentTeam = None
  /\ team # None
====
